---- MODULE Spec2Model ----
(***************************************************************************)
(* Five independent teaching scripts: beats_simulation.py, spring_block.py, *)
(* newton_rings.py, standing_wave.py and wien_displacement.py.  Each script *)
(* has its own variables and its own specification (SpecBeats, SpecSpring,  *)
(* SpecNewton, SpecWave, SpecWien); no script reads another's state.        *)
(*                                                                         *)
(* Number representation.  Floating-point values are modelled exactly      *)
(* where the code's arithmetic is rational (frequencies, sample times as   *)
(* fractions, Euler iterates as polynomials in the step size h), and in    *)
(* fixed point (value * SinScale) where the code calls np.sin or np.sqrt.  *)
(* A non-finite float is a record whose kind is "nan" or "inf".            *)
(***************************************************************************)
EXTENDS Integers, Sequences, FiniteSets, TLC

VARIABLES
    \* beats_simulation.py
    beat_call, beat_ret, beat_plotted,
    \* spring_block.py
    step_num, position, velocity, time_step, loop_i, euler_ret,
    \* newton_rings.py
    newton_call, newton_ret,
    \* standing_wave.py
    lines, wave_mode, frame, initDone, drawn, lastOp,
    \* wien_displacement.py
    WIEN_CONSTANT, loadConstant, wien_pc, x0, solved, stdout, wien_call, wien_ret, wien_exc,
    guessed

beatsVars  == <<beat_call, beat_ret, beat_plotted>>
springVars == <<step_num, position, velocity, time_step, loop_i, euler_ret>>
newtonVars == <<newton_call, newton_ret>>
waveVars   == <<lines, wave_mode, frame, initDone, drawn, lastOp>>
wienVars   == <<WIEN_CONSTANT, loadConstant, wien_pc, x0, solved, stdout, wien_call, wien_ret, wien_exc,
                guessed>>
vars == <<beatsVars, springVars, newtonVars, waveVars, wienVars>>

(***************************************************************************)
(* Bounds of the model.                                                    *)
(***************************************************************************)
\* fixed-point scale of np.sin values
SinScale == 1000
\* largest sample count passed to simulate_beat_frequency
MaxPoints == 4
\* largest step count passed to solve_ode_euler
MaxN == 12
\* number of spatial samples of the standing wave (the source uses 1000)
NumX == 11
\* largest frame index of a direct animate(i) call
MaxFrame == 6
\* largest radial distance / lens radius of a calculate_intensity call
MaxR == 4
\* fixed-point scale of the lengths under np.sqrt
LenScale == 10

(***************************************************************************)
(* Floats that may be non-finite.                                          *)
(***************************************************************************)
Num(v) == [kind |-> "num", v |-> v]
NaN == [kind |-> "nan", v |-> 0]
Inf == [kind |-> "inf", v |-> 0]
IsFinite(f) == f.kind = "num"

Abs(a) == IF a < 0 THEN -a ELSE a

(***************************************************************************)
(* np.sin at the angle pi*n/d, in fixed point: Bhaskara's rational          *)
(* approximation 16p(1-p)/(5-4p(1-p)) on [0, pi], odd and 2*pi-periodic.    *)
(***************************************************************************)
SinHalfTurn(m, d) == (SinScale * 16 * m * (d - m)) \div (5 * d * d - 4 * m * (d - m))

SinPi(n, d) ==
    LET m == n % (2 * d)
    IN  IF m <= d THEN SinHalfTurn(m, d) ELSE -SinHalfTurn(m - d, d)

(***************************************************************************)
(* np.linspace(start, stop, num): a negative num raises ValueError (the     *)
(* callers below test for it), num = 0 gives the empty array, num = 1 gives *)
(* [start]; otherwise sample j is start + j*(stop-start)/(num-1), kept as   *)
(* the fraction <<numerator, denominator>>.                                 *)
(***************************************************************************)
LinspaceDiv(num) == IF num > 1 THEN num - 1 ELSE 1

Linspace(start, stop, num) ==
    [j \in 1..num |-> <<start * LinspaceDiv(num) + (j - 1) * (stop - start), LinspaceDiv(num)>>]

(***************************************************************************)
(* beats_simulation.py                                                      *)
(***************************************************************************)
NoRet == [status |-> "none", exc |-> "", t |-> <<>>, wave |-> <<>>, beat |-> 0]
NoCall == [f1 |-> 0, f2 |-> 0, A1 |-> 0, A2 |-> 0, t_start |-> 0, t_end |-> 0,
           num_points |-> 0, show_plot |-> FALSE]

\* A * np.sin(2*pi*f*t) for every sample t
SineWave(A, f, t) == [j \in 1..Len(t) |-> A * SinPi(2 * f * t[j][1], t[j][2])]

BeatFrequencyWrong(f1, f2) == f1 - f2

\* np.abs(f1 - f2)
BeatFrequency(f1, f2) == Abs(f1 - f2)

simulate_beat_frequency(f1, f2, A1, A2, t_start, t_end, num_points, show_plot) ==
    /\ beat_call' = [f1 |-> f1, f2 |-> f2, A1 |-> A1, A2 |-> A2, t_start |-> t_start,
                     t_end |-> t_end, num_points |-> num_points, show_plot |-> show_plot]
    /\ IF num_points < 0
       THEN \* np.linspace raises before anything is computed or drawn
            /\ beat_ret' = [NoRet EXCEPT !.status = "raised", !.exc = "ValueError"]
            /\ beat_plotted' = FALSE
       ELSE LET t == Linspace(t_start, t_end, num_points)
                wave1 == SineWave(A1, f1, t)
                wave2 == SineWave(A2, f2, t)
                superposed_wave == [j \in 1..Len(t) |-> wave1[j] + wave2[j]]
                beat_frequency == BeatFrequency(f1, f2)
            IN  /\ beat_ret' = [status |-> "returned", exc |-> "", t |-> t,
                                wave |-> superposed_wave, beat |-> beat_frequency]
                /\ beat_plotted' = show_plot

BeatFreqs == {439, 440, 444}
BeatAmps == {1, 2}

BeatsInit ==
    /\ beat_call = NoCall
    /\ beat_ret = NoRet
    /\ beat_plotted = FALSE

BeatsOnly == UNCHANGED <<springVars, newtonVars, waveVars, wienVars>>

BeatsNext ==
    \E f1 \in BeatFreqs, f2 \in BeatFreqs, A1 \in BeatAmps, A2 \in BeatAmps,
       t_end \in {1, 2}, num_points \in -1..MaxPoints, show_plot \in BOOLEAN :
        /\ simulate_beat_frequency(f1, f2, A1, A2, 0, t_end, num_points, show_plot)
        /\ BeatsOnly

(***************************************************************************)
(* spring_block.py                                                          *)
(*                                                                         *)
(* time_step = 2*pi/step_num is irrational, so every float of the Euler     *)
(* iteration is kept exactly, as a polynomial in h = time_step with integer *)
(* coefficients: p[k] is the coefficient of h^k, k in 0..PolyDeg.           *)
(***************************************************************************)
PolyDeg == 2 * MaxN + 2

PZero == [k \in 0..PolyDeg |-> 0]
POne == [k \in 0..PolyDeg |-> IF k = 0 THEN 1 ELSE 0]
\* the step size h itself
PH == [k \in 0..PolyDeg |-> IF k = 1 THEN 1 ELSE 0]
PConst(c) == [k \in 0..PolyDeg |-> IF k = 0 THEN c ELSE 0]
PAdd(p, q) == [k \in 0..PolyDeg |-> p[k] + q[k]]
PSub(p, q) == [k \in 0..PolyDeg |-> p[k] - q[k]]

RECURSIVE Conv(_, _, _, _)
Conv(p, q, k, a) == IF a > k THEN 0 ELSE p[a] * q[k - a] + Conv(p, q, k, a + 1)

PMul(p, q) == [k \in 0..PolyDeg |-> Conv(p, q, k, 0)]

\* position[i] + velocity[i] * time_step
NextPosition(pos, vel, i, h) == PAdd(pos[i], PMul(vel[i], h))

\* the semi-implicit variant: the velocity reads the position already updated
NextVelocitySymplectic(pos, vel, i, h) == PSub(vel[i], PMul(pos[i + 1], h))

\* velocity[i] - position[i] * time_step; pos is the array after line 34 wrote pos[i+1]
NextVelocity(pos, vel, i, h) == PSub(vel[i], PMul(pos[i], h))

NoEulerRet == [status |-> "none", exc |-> "", time_points |-> <<>>,
               position |-> <<>>, velocity |-> <<>>]

\* np.zeros(n)
Zeros(n) == [j \in 0..(n - 1) |-> PZero]

\* the call up to the loop: the allocations, the step size, the initial condition
solve_ode_euler(N) ==
    /\ euler_ret.status # "running"
    /\ step_num' = N
    /\ loop_i' = 0
    /\ IF N < 0
       THEN \* np.zeros(step_num + 1) with a negative size (or size 0, then position[0])
            /\ euler_ret' = [NoEulerRet EXCEPT !.status = "raised",
                                !.exc = IF N = -1 THEN "IndexError" ELSE "ValueError"]
            /\ position' = <<>> /\ velocity' = <<>> /\ time_step' = PZero
       ELSE IF N = 0
       THEN \* 2 * np.pi / 0
            /\ euler_ret' = [NoEulerRet EXCEPT !.status = "raised", !.exc = "ZeroDivisionError"]
            /\ position' = Zeros(1) /\ velocity' = Zeros(1) /\ time_step' = PZero
       ELSE /\ euler_ret' = [NoEulerRet EXCEPT !.status = "running"]
            /\ position' = [Zeros(N + 1) EXCEPT ![0] = PConst(0)]
            /\ velocity' = [Zeros(N + 1) EXCEPT ![0] = PConst(1)]
            /\ time_step' = PH

\* one iteration of the for loop
euler_step ==
    /\ euler_ret.status = "running"
    /\ loop_i < step_num
    /\ LET pos1 == [position EXCEPT ![loop_i + 1] = NextPosition(position, velocity, loop_i, time_step)]
       IN  /\ position' = pos1
           /\ velocity' = [velocity EXCEPT ![loop_i + 1] = NextVelocity(pos1, velocity, loop_i, time_step)]
    /\ loop_i' = loop_i + 1
    /\ UNCHANGED <<step_num, time_step, euler_ret>>

\* np.arange(step_num + 1) * time_step, and the return
euler_return ==
    /\ euler_ret.status = "running"
    /\ loop_i = step_num
    /\ euler_ret' = [status |-> "returned", exc |-> "",
                     time_points |-> [j \in 0..step_num |-> PMul(PConst(j), time_step)],
                     position |-> position, velocity |-> velocity]
    /\ UNCHANGED <<step_num, position, velocity, time_step, loop_i>>

\* plot_comparison's energy_euler, doubled to stay in integers: v**2 + x**2
EnergyTwice(x, v) == [j \in DOMAIN x |-> PAdd(PMul(v[j], v[j]), PMul(x[j], x[j]))]

SpringInit ==
    /\ step_num = 0
    /\ position = <<>>
    /\ velocity = <<>>
    /\ time_step = PZero
    /\ loop_i = 0
    /\ euler_ret = NoEulerRet

SpringOnly == UNCHANGED <<beatsVars, newtonVars, waveVars, wienVars>>

SpringNext ==
    \/ \E N \in -2..MaxN : solve_ode_euler(N) /\ SpringOnly
    \/ euler_step /\ SpringOnly
    \/ euler_return /\ SpringOnly

(***************************************************************************)
(* newton_rings.py                                                          *)
(* Lengths r, R_lens and lambda_light are integers in one common unit; the  *)
(* air gap d is kept in fixed point (d * LenScale).                         *)
(***************************************************************************)
\* floor of the square root of n >= 0
ISqrt(n) == CHOOSE s \in 0..(n + 1) : s * s <= n /\ n < (s + 1) * (s + 1)

\* np.sqrt(R_lens**2 - r**2), scaled by LenScale: nan (and a RuntimeWarning, no
\* exception) when the argument is negative
SqrtTerm(r, R_lens) ==
    IF R_lens * R_lens - r * r < 0
    THEN NaN
    ELSE Num(ISqrt(LenScale * LenScale * (R_lens * R_lens - r * r)))

\* d = R_lens - np.sqrt(R_lens**2 - r**2)
AirGap(r, R_lens) ==
    LET q == SqrtTerm(r, R_lens)
    IN  IF IsFinite(q) THEN Num(LenScale * R_lens - q.v) ELSE NaN

\* 4 * (np.sin(2 * np.pi * d / lambda_light))**2, scaled by SinScale
Intensity(d, lambda_light) ==
    IF IsFinite(d)
    THEN LET sn == SinPi(2 * d.v, LenScale * lambda_light)
         IN  Num((4 * sn * sn) \div SinScale)
    ELSE NaN

NoNewtonCall == [r |-> <<>>, lambda_light |-> 0, R_lens |-> 0]
NoNewtonRet == [status |-> "none", exc |-> "", intensity |-> <<>>]

calculate_intensity(r, lambda_light, R_lens) ==
    /\ newton_call' = [r |-> r, lambda_light |-> lambda_light, R_lens |-> R_lens]
    /\ newton_ret' = [status |-> "returned", exc |-> "",
                      intensity |-> [j \in 1..Len(r) |->
                                        Intensity(AirGap(r[j], R_lens), lambda_light)]]

NewtonRs == UNION {[1..n -> 0..MaxR] : n \in 1..2}

NewtonInit ==
    /\ newton_call = NoNewtonCall
    /\ newton_ret = NoNewtonRet

NewtonOnly == UNCHANGED <<beatsVars, springVars, waveVars, wienVars>>

NewtonNext ==
    \E r \in NewtonRs, lambda_light \in 1..2, R_lens \in 1..MaxR :
        /\ calculate_intensity(r, lambda_light, R_lens)
        /\ NewtonOnly

(***************************************************************************)
(* standing_wave.py                                                         *)
(* omega is given in units of pi, k in units of pi/2, t as a fraction.      *)
(***************************************************************************)
\* frames=200 of the FuncAnimation call
Frames == 200

\* x = np.linspace(0, 10, 1000), with NumX samples
x == Linspace(0, 10, NumX)

EmptyLine == [xdata |-> <<>>, ydata |-> <<>>]

\* A * np.sin(k * x - omega * t)
sineWaveZeroPhi(xs, t, A, omega, k) ==
    [j \in 1..Len(xs) |->
        A * SinPi(k * xs[j][1] * t[2] - 2 * omega * t[1] * xs[j][2], 2 * xs[j][2] * t[2])]

NoOp == [op |-> "none", i |-> 0, A |-> 0, omega |-> 0, k |-> 0]

\* an init that forgets the third series
initKeepsStanding ==
    /\ lines' = [lines EXCEPT ![1] = EmptyLine, ![2] = EmptyLine]
    /\ lastOp' = [NoOp EXCEPT !.op = "init"]
    /\ initDone' = TRUE
    /\ UNCHANGED drawn

init ==
    /\ lines' = [n \in 1..3 |-> EmptyLine]
    /\ lastOp' = [NoOp EXCEPT !.op = "init"]
    /\ initDone' = TRUE
    /\ UNCHANGED drawn

\* an animate that adds the new standing wave onto the series already held
animateAccumulating(i, A, omega, k) ==
    LET t == <<i, 20>>
        y_forward == sineWaveZeroPhi(x, t, A, omega, k)
        y_backward == sineWaveZeroPhi(x, t, A, -omega, k)
        old == lines[3].ydata
        y_standing == [j \in 1..Len(x) |->
                          y_forward[j] + y_backward[j] + (IF Len(old) = Len(x) THEN old[j] ELSE 0)]
    IN  /\ lines' = <<[xdata |-> x, ydata |-> y_forward],
                      [xdata |-> x, ydata |-> y_backward],
                      [xdata |-> x, ydata |-> y_standing]>>
        /\ lastOp' = [op |-> "animate", i |-> i, A |-> A, omega |-> omega, k |-> k]
        /\ drawn' = TRUE
        /\ UNCHANGED initDone

animate(i, A, omega, k) ==
    LET t == <<i, 20>>     \* t = 0.05 * i
        y_forward == sineWaveZeroPhi(x, t, A, omega, k)
        y_backward == sineWaveZeroPhi(x, t, A, -omega, k)
        y_standing == [j \in 1..Len(x) |-> y_forward[j] + y_backward[j]]
    IN  /\ lines' = <<[xdata |-> x, ydata |-> y_forward],
                      [xdata |-> x, ydata |-> y_backward],
                      [xdata |-> x, ydata |-> y_standing]>>
        /\ lastOp' = [op |-> "animate", i |-> i, A |-> A, omega |-> omega, k |-> k]
        /\ drawn' = TRUE
        /\ UNCHANGED initDone

\* a caller that imported the module calls init() directly
DirectInit ==
    /\ wave_mode \in {"loaded", "import"}
    /\ wave_mode' = "import"
    /\ init
    /\ UNCHANGED frame

\* a caller that imported the module calls animate(i, ...) directly
DirectAnimate ==
    /\ wave_mode \in {"loaded", "import"}
    /\ wave_mode' = "import"
    /\ \E i \in 0..MaxFrame, A \in {1, 2}, omega \in {1, 2}, k \in {1, 2} : animate(i, A, omega, k)
    /\ UNCHANGED frame

\* __main__: FuncAnimation(fig, animate, init_func=init, frames=200, ...) and
\* plt.show(); the first draw runs init_func
MainStart ==
    /\ wave_mode = "loaded"
    /\ wave_mode' = "main"
    /\ init
    /\ frame' = 0

\* the driver draws the next frame of range(frames) with the default A, omega, k
MainFrame ==
    /\ wave_mode = "main"
    /\ frame < Frames
    /\ animate(frame, 1, 2, 1)
    /\ frame' = frame + 1
    /\ UNCHANGED wave_mode

\* repeat=True (the default): the frame sequence is exhausted, init_func runs again
MainRepeat ==
    /\ wave_mode = "main"
    /\ frame = Frames
    /\ init
    /\ frame' = 0
    /\ UNCHANGED wave_mode

WaveInit ==
    /\ lines = [n \in 1..3 |-> EmptyLine]     \* ax.plot([], [], ...)
    /\ wave_mode = "loaded"
    /\ frame = 0
    /\ initDone = FALSE
    /\ drawn = FALSE
    /\ lastOp = NoOp

WaveOnly == UNCHANGED <<beatsVars, springVars, newtonVars, wienVars>>

WaveNext ==
    \/ DirectInit /\ WaveOnly
    \/ DirectAnimate /\ WaveOnly
    \/ MainStart /\ WaveOnly
    \/ MainFrame /\ WaveOnly
    \/ MainRepeat /\ WaveOnly

(***************************************************************************)
(* wien_displacement.py                                                     *)
(* x is kept in thousandths, b in micrometre-kelvin, wavelengths in         *)
(* nanometres, temperatures in kelvin.                                      *)
(***************************************************************************)
\* constants.h * constants.c / constants.k in micrometre-kelvin
HcOverKB == 14388
\* the positive root of wien_equation, 4.965114, in thousandths
WienRoot == 4965
\* the default of solve_wien_constant's x0, 5.0
DefaultX0 == 5000
\* the x0 that __main__ substitutes for an unparsable input, 5
FallbackX0 == 5000
\* wavelength_sun = 502e-9
SunWavelength == 502
\* calculate_temperature(wavelength) declares one parameter
CalcTempParams == 1

Unset == [kind |-> "unset", v |-> 0]

(***************************************************************************)
(* scipy.optimize.fsolve(wien_equation, x0) without full_output: the        *)
(* outcomes the library can produce.  ier = 1 is convergence; any other ier *)
(* is a non-converged run, on which fsolve only warns and returns its last  *)
(* iterate.  From a guess in the suggested range 4 to 6 it converges to the *)
(* positive root; elsewhere it may converge to either root of the equation  *)
(* (0 or 4.965) or stop without converging.                                 *)
(***************************************************************************)
Fsolve(guess) ==
    IF IsFinite(guess) /\ guess.v >= 4000 /\ guess.v <= 6000
    THEN {[x |-> Num(WienRoot), ier |-> 1]}
    ELSE IF IsFinite(guess)
    THEN {[x |-> Num(WienRoot), ier |-> 1], [x |-> Num(0), ier |-> 1],
          [x |-> guess, ier |-> 5], [x |-> guess, ier |-> 2]}
    ELSE {[x |-> NaN, ier |-> 5], [x |-> guess, ier |-> 5]}

\* b = (h * c) / (k_B * x_solution), numpy float division
WienB(xs) ==
    CASE xs.kind = "nan" -> NaN
      [] xs.kind = "inf" -> Num(0)
      [] xs.kind = "num" /\ xs.v = 0 -> Inf
      [] OTHER -> Num((HcOverKB * 1000) \div xs.v)

\* what solve_wien_constant returns for one outcome of fsolve; ier is not part of
\* the returned pair, it is kept to tell which outcome produced it
SolveWien(o) == [status |-> "returned", x |-> o.x, b |-> WienB(o.x), ier |-> o.ier]

\* WIEN_CONSTANT / wavelength, numpy float division
FloatDiv(b, w) ==
    CASE b.kind = "nan" -> NaN
      [] b.kind = "inf" -> Inf
      [] w = 0 /\ b.v = 0 -> NaN
      [] w = 0 -> Inf
      [] OTHER -> Num((b.v * 1000) \div w)

\* a calculate_temperature that takes the extra argument
AcceptsArgsLenient(n) == n \in {CalcTempParams, CalcTempParams + 1}

\* Python's check of a call with n positional arguments against the signature
AcceptsArgs(n) == n = CalcTempParams

NoWienCall == [fn |-> "none", arg |-> Unset, w |-> 0]
NoWienRet == [status |-> "none", x |-> Unset, b |-> Unset, ier |-> 0, T |-> Unset]
NoSolved == [status |-> "none", x |-> Unset, b |-> Unset, ier |-> 0]

\* module load: WIEN_CONSTANT = solve_wien_constant()[1]; asMain tells whether the
\* module then runs as __main__ or was imported
Load(asMain) ==
    /\ wien_pc = "unloaded"
    /\ \E o \in Fsolve(Num(DefaultX0)) :
          /\ WIEN_CONSTANT' = SolveWien(o).b
          /\ loadConstant' = SolveWien(o).b
    /\ wien_pc' = IF asMain THEN "main_plot" ELSE "imported"
    /\ UNCHANGED <<x0, solved, stdout, wien_call, wien_ret, wien_exc, guessed>>

\* a solve_wien_constant that stores its result in the module constant
solve_wien_constant_storing(guess) ==
    /\ wien_pc = "imported"
    /\ \E o \in Fsolve(guess) :
          /\ wien_ret' = [status |-> SolveWien(o).status, x |-> SolveWien(o).x,
                          b |-> SolveWien(o).b, ier |-> SolveWien(o).ier, T |-> Unset]
          /\ WIEN_CONSTANT' = SolveWien(o).b
    /\ wien_call' = [fn |-> "solve_wien_constant", arg |-> guess, w |-> 0]
    /\ guessed' = (guessed \/ guess # Num(DefaultX0))
    /\ UNCHANGED <<loadConstant, wien_pc, x0, solved, stdout, wien_exc>>

\* an importer calls solve_wien_constant(x0)
solve_wien_constant(guess) ==
    /\ wien_pc = "imported"
    /\ \E o \in Fsolve(guess) :
          wien_ret' = [status |-> SolveWien(o).status, x |-> SolveWien(o).x,
                       b |-> SolveWien(o).b, ier |-> SolveWien(o).ier, T |-> Unset]
    /\ wien_call' = [fn |-> "solve_wien_constant", arg |-> guess, w |-> 0]
    /\ guessed' = (guessed \/ guess # Num(DefaultX0))
    /\ UNCHANGED <<WIEN_CONSTANT, loadConstant, wien_pc, x0, solved, stdout, wien_exc>>

\* an importer calls calculate_temperature(wavelength)
calculate_temperature(wavelength) ==
    /\ wien_pc = "imported"
    /\ wien_ret' = [NoWienRet EXCEPT !.status = "returned",
                                     !.T = FloatDiv(WIEN_CONSTANT, wavelength)]
    /\ wien_call' = [fn |-> "calculate_temperature", arg |-> Unset, w |-> wavelength]
    /\ UNCHANGED <<WIEN_CONSTANT, loadConstant, wien_pc, x0, solved, stdout, wien_exc, guessed>>

\* __main__: plot_wien_equation()
MainPlot ==
    /\ wien_pc = "main_plot"
    /\ wien_pc' = "main_input"
    /\ UNCHANGED <<WIEN_CONSTANT, loadConstant, x0, solved, stdout, wien_call, wien_ret, wien_exc, guessed>>

\* x0 = float(input(...)): the text parses
MainInputParsed(v) ==
    /\ wien_pc = "main_input"
    /\ x0' = v
    /\ wien_pc' = "main_solve"
    /\ UNCHANGED <<WIEN_CONSTANT, loadConstant, solved, stdout, wien_call, wien_ret, wien_exc, guessed>>

\* float() raises ValueError: the except clause prints and sets x0 = 5
MainInputInvalid ==
    /\ wien_pc = "main_input"
    /\ stdout' = Append(stdout, "invalid input, default 5")
    /\ x0' = Num(FallbackX0)
    /\ wien_pc' = "main_solve"
    /\ UNCHANGED <<WIEN_CONSTANT, loadConstant, solved, wien_call, wien_ret, wien_exc, guessed>>

\* input() raises EOFError (standard input is closed): not a ValueError, uncaught
MainInputEOF ==
    /\ wien_pc = "main_input"
    /\ wien_exc' = "EOFError"
    /\ wien_pc' = "ended"
    /\ UNCHANGED <<WIEN_CONSTANT, loadConstant, x0, solved, stdout, wien_call, wien_ret, guessed>>

\* x, b = solve_wien_constant(x0) and the three prints
MainSolve ==
    /\ wien_pc = "main_solve"
    /\ \E o \in Fsolve(x0) : solved' = SolveWien(o)
    /\ stdout' = stdout \o <<"x0", "x", "b">>
    /\ wien_pc' = "main_temp"
    /\ UNCHANGED <<WIEN_CONSTANT, loadConstant, x0, wien_call, wien_ret, wien_exc, guessed>>

\* temperature_sun = calculate_temperature(wavelength_sun, x0) and the last print
MainTemperature ==
    /\ wien_pc = "main_temp"
    /\ wien_call' = [fn |-> "calculate_temperature", arg |-> x0, w |-> SunWavelength]
    /\ IF AcceptsArgs(Len(<<SunWavelength, x0>>))
       THEN /\ wien_ret' = [NoWienRet EXCEPT !.status = "returned",
                                !.T = FloatDiv(WIEN_CONSTANT, SunWavelength)]
            /\ stdout' = Append(stdout, "temperature")
            /\ wien_exc' = ""
       ELSE /\ wien_ret' = [NoWienRet EXCEPT !.status = "raised"]
            /\ wien_exc' = "TypeError"
            /\ UNCHANGED stdout
    /\ wien_pc' = "ended"
    /\ UNCHANGED <<WIEN_CONSTANT, loadConstant, x0, solved, guessed>>

\* initial guesses: the default, others in and out of the suggested range, non-finite
Guesses == {Num(DefaultX0), Num(4000), Num(6000), Num(0), Num(1000), Num(1609), Num(3000),
            Num(7000), Num(-800000), NaN, Inf}
Wavelengths == {0, SunWavelength, 1000, 2897}

WienInit ==
    /\ WIEN_CONSTANT = Unset
    /\ loadConstant = Unset
    /\ wien_pc = "unloaded"
    /\ x0 = Unset
    /\ solved = NoSolved
    /\ stdout = <<>>
    /\ wien_call = NoWienCall
    /\ wien_ret = NoWienRet
    /\ wien_exc = ""
    /\ guessed = FALSE

WienOnly == UNCHANGED <<beatsVars, springVars, newtonVars, waveVars>>

WienNext ==
    \/ \E asMain \in BOOLEAN : Load(asMain) /\ WienOnly
    \/ \E guess \in Guesses : solve_wien_constant(guess) /\ WienOnly
    \/ \E wavelength \in Wavelengths : calculate_temperature(wavelength) /\ WienOnly
    \/ MainPlot /\ WienOnly
    \/ \E v \in Guesses : MainInputParsed(v) /\ WienOnly
    \/ MainInputInvalid /\ WienOnly
    \/ MainInputEOF /\ WienOnly
    \/ MainSolve /\ WienOnly
    \/ MainTemperature /\ WienOnly

(***************************************************************************)
(* One specification per script; the other scripts' variables stay at their *)
(* initial values.                                                          *)
(***************************************************************************)
Init == BeatsInit /\ SpringInit /\ NewtonInit /\ WaveInit /\ WienInit

SpecBeats == Init /\ [][BeatsNext]_vars
SpecSpring == Init /\ [][SpringNext]_vars
SpecNewton == Init /\ [][NewtonNext]_vars
SpecWave == Init /\ [][WaveNext]_vars
SpecWien == Init /\ [][WienNext]_vars

(***************************************************************************)
(* Claims                                                                   *)
(***************************************************************************)

\* C1: whenever simulate_beat_frequency returns, its third result is |f1 - f2|:
\* 0 for f1 = f2, 4 for f1 = 440 and f2 = 444, and the same with f1 and f2 swapped.
C1_BeatIsAbsDifference ==
    beat_ret.status = "returned" =>
        /\ beat_ret.beat >= 0
        /\ \/ beat_ret.beat = beat_call.f1 - beat_call.f2
           \/ beat_ret.beat = beat_call.f2 - beat_call.f1
        /\ (beat_call.f1 = beat_call.f2 => beat_ret.beat = 0)
        /\ (beat_call.f1 = 440 /\ beat_call.f2 = 444 => beat_ret.beat = 4)
        /\ (beat_call.f1 = 444 /\ beat_call.f2 = 440 => beat_ret.beat = 4)

C1_Witness ==
    /\ beat_ret.status = "returned"
    /\ beat_call.f1 = 440 /\ beat_call.f2 = 444
    /\ beat_call.num_points > 0
    /\ beat_ret.beat = 4

\* h times p, by shifting the coefficients
TimesH(p) == [k \in 0..PolyDeg |-> IF k = 0 THEN 0 ELSE p[k - 1]]

\* C2: solve_ode_euler(N), N >= 1, returns three arrays of length N+1 with
\* time[i] = i*h, (x[0], v[0]) = (0, 1), and x[i+1] = x[i] + v[i]*h,
\* v[i+1] = v[i] - x[i]*h for every i < N, both reading the state of step i.
C2_ExplicitEuler ==
    (euler_ret.status = "returned" /\ step_num >= 1) =>
        LET t == euler_ret.time_points
            xs == euler_ret.position
            vs == euler_ret.velocity
        IN  /\ DOMAIN t = 0..step_num
            /\ DOMAIN xs = 0..step_num
            /\ DOMAIN vs = 0..step_num
            /\ \A i \in 0..step_num : t[i] = [k \in 0..PolyDeg |-> IF k = 1 THEN i ELSE 0]
            /\ xs[0] = PZero
            /\ vs[0] = POne
            /\ \A i \in 0..(step_num - 1) :
                  /\ xs[i + 1] = [k \in 0..PolyDeg |-> xs[i][k] + TimesH(vs[i])[k]]
                  /\ vs[i + 1] = [k \in 0..PolyDeg |-> vs[i][k] - TimesH(xs[i])[k]]

C2_Witness ==
    /\ euler_ret.status = "returned"
    /\ step_num >= 3
    /\ euler_ret.velocity[2] = [k \in 0..PolyDeg |-> IF k = 0 THEN 1 ELSE IF k = 2 THEN -1 ELSE 0]

C4_NonPositiveCountFails ==
    (beat_ret.status # "none" /\ beat_call.num_points <= 0) => beat_ret.status = "raised"

\* C5: calculate_intensity never returns a non-finite intensity for a point whose
\* radial distance exceeds the lens radius (it clamps, or it fails).
C5_OutOfApertureGuarded ==
    newton_ret.status = "returned" =>
        \A j \in 1..Len(newton_call.r) :
            newton_call.r[j] > newton_call.R_lens => IsFinite(newton_ret.intensity[j])

\* C6: when fsolve does not converge inside solve_wien_constant(x0), the call
\* raises; it never returns an (x, b) pair computed from the last iterate.
C6_NonConvergenceRaises ==
    (wien_call.fn = "solve_wien_constant" /\ wien_ret.ier # 1) => wien_ret.status = "raised"

\* C7: the module constant is set at load from the default guess and never
\* changes afterwards; calculate_temperature(w) returns that load-time constant
\* divided by w, whatever guesses solve_wien_constant was called with since.
C7_ConstantSetOnce ==
    /\ wien_pc = "unloaded" => WIEN_CONSTANT = Unset
    /\ wien_pc # "unloaded" =>
          /\ WIEN_CONSTANT = loadConstant
          /\ loadConstant = Num((HcOverKB * 1000) \div WienRoot)
    /\ (wien_call.fn = "calculate_temperature" /\ wien_ret.status = "returned") =>
          wien_ret.T = IF wien_call.w = 0 THEN Inf
                       ELSE Num((loadConstant.v * 1000) \div wien_call.w)

C7_Witness ==
    /\ wien_pc = "imported"
    /\ guessed
    /\ wien_call.fn = "calculate_temperature"
    /\ wien_call.w = SunWavelength
    /\ wien_ret.T = Num(5770)

\* C8: after animate(i, A, omega, k), whatever was called before, every series has
\* the spatial samples x as abscissa, series 1 is A*sin(k*x - omega*t), series 2 is
\* A*sin(k*x + omega*t) and series 3 is their pointwise sum, at t = 0.05*i.
C8_FrameDependsOnIndexOnly ==
    lastOp.op = "animate" =>
        LET xd == NumX - 1
            xn(j) == 10 * (j - 1)
            kx(j) == lastOp.k * xn(j) * 20
            wt == 2 * lastOp.omega * lastOp.i * xd
            fwd == [j \in 1..NumX |-> lastOp.A * SinPi(kx(j) - wt, 40 * xd)]
            bwd == [j \in 1..NumX |-> lastOp.A * SinPi(kx(j) + wt, 40 * xd)]
        IN  /\ \A n \in 1..3 : lines[n].xdata = [j \in 1..NumX |-> <<xn(j), xd>>]
            /\ lines[1].ydata = fwd
            /\ lines[2].ydata = bwd
            /\ lines[3].ydata = [j \in 1..NumX |-> fwd[j] + bwd[j]]

C8_Witness ==
    /\ wave_mode = "main"
    /\ frame = 3
    /\ lastOp.op = "animate" /\ lastOp.i = 2
    /\ lines[1].ydata # lines[2].ydata
    /\ \E j \in 1..NumX : lines[3].ydata[j] # 0

AllEmpty == \A n \in 1..3 : lines[n].xdata = <<>> /\ lines[n].ydata = <<>>

\* C9: init() leaves all three series empty whatever they held, and in the
\* animation driver the first frame is drawn after init, from three empty series.
C9_InitClearsBeforeFirstDraw ==
    [][/\ (lastOp'.op = "init") => AllEmpty'
       /\ (wave_mode' = "main" /\ ~drawn /\ drawn') => (initDone /\ lastOp.op = "init" /\ AllEmpty)]_vars

C9_Witness ==
    /\ wave_mode = "main"
    /\ drawn
    /\ lastOp.op = "init"
    /\ AllEmpty

\* C10: in the Wien entry point only the unparsable input is caught (x0 becomes 5);
\* every run that has an initial guess reaches the two-argument call of
\* calculate_temperature, which raises TypeError there, uncaught, and the run ends
\* with no temperature printed.
C10_MainEndsInTypeError ==
    /\ (wien_pc \in {"main_solve", "main_temp", "ended"} /\ Len(stdout) > 0
            /\ stdout[1] = "invalid input, default 5") => x0 = Num(FallbackX0)
    /\ (wien_pc = "main_solve") => (x0 # Unset /\ ENABLED MainSolve)
    /\ (wien_pc = "main_temp") => (x0 # Unset /\ ENABLED MainTemperature)
    /\ (wien_pc = "ended" /\ x0 = Unset) => wien_exc = "EOFError"
    /\ (wien_pc = "ended" /\ x0 # Unset) =>
          /\ wien_exc = "TypeError"
          /\ wien_call = [fn |-> "calculate_temperature", arg |-> x0, w |-> SunWavelength]
          /\ wien_ret.status = "raised"
          /\ \A n \in 1..Len(stdout) : stdout[n] # "temperature"
          /\ stdout \in {<<"x0", "x", "b">>, <<"invalid input, default 5", "x0", "x", "b">>}

C10_Witness ==
    /\ wien_pc = "ended"
    /\ wien_exc = "TypeError"
    /\ x0 = Num(FallbackX0)
    /\ stdout = <<"invalid input, default 5", "x0", "x", "b">>

====
